---- MODULE Spec2Model ----
(***************************************************************************)
(* Event-listener binding and dispatch of the render3 runtime              *)
(* (packages/core/src/render3/instructions/listener.ts).                   *)
(*                                                                         *)
(* One template (TView) with two nodes is instantiated twice: view 1 runs  *)
(* the creation block during the first template pass, view 2 runs the same *)
(* creation block afterwards.  Once both views exist, native events are    *)
(* dispatched to the registered wrappers and the views are destroyed.      *)
(***************************************************************************)
EXTENDS Integers, Sequences, FiniteSets, TLC

(* ------------------------------------------------------------------ *)
(* Bounds                                                              *)
(* ------------------------------------------------------------------ *)

\* number of instructions (listener calls and cleanup-hook registrations) in
\* the creation block of the template
MaxOps == 3

(* ------------------------------------------------------------------ *)
(* Static data of the template                                         *)
(* ------------------------------------------------------------------ *)

Views == {1, 2}
Nodes == {0, 1}
EventNames == {"click", "focus"}
NodeTypes == {"Element", "Container", "ElementContainer"}

\* (node, event name) pairs the creation block binds
Slots == {<<0, "click">>, <<0, "focus">>, <<1, "click">>}

\* node 1 of the template: its type, and whether the @Output of its directive
\* has been initialised to an observable
Node1Configs ==
  { [type |-> "Element", observable |-> TRUE],
    [type |-> "Container", observable |-> TRUE],
    [type |-> "ElementContainer", observable |-> TRUE],
    [type |-> "Element", observable |-> FALSE] }

\* values a listener function returns
ReturnValues == {"false", "undefined", "zero", "true"}
\* what one invocation of a listener function does
Outcomes == ReturnValues \cup {"throw"}

VARIABLES
  procedural,         \* isProceduralRenderer(renderer) of the renderer factory in use
  useCapture,         \* the useCapture argument the creation block passes
  node1,              \* configuration of node 1 (an element of Node1Configs)
  phase,              \* "first" | "replay" | "live" | "failed"
  prog,               \* the instructions the creation block has executed (first pass)
  pc,                 \* next instruction of prog to run for view 2
  firstTemplatePass,  \* tView.firstTemplatePass
  tCleanup,           \* tView.cleanup, a flat sequence of slots
  tNodeOutputs,       \* per node: "undefined" or "generated" (tNode.outputs cache)
  lCleanup,           \* lView[CLEANUP] of each view
  natSubs,            \* per view: native subscriptions made (listen / addEventListener)
  outSubs,            \* per view: output subscriptions made (output.subscribe)
  chain,              \* per view: the __ngNextListenerFn__ field of function objects
  call,               \* the listenerInternal call that ran last
  disp,               \* the native event dispatch that ran last
  emission,           \* the emission of a directive output that ran last
  destroyed           \* per view: has the view been destroyed

vars == <<procedural, useCapture, node1, phase, prog, pc, firstTemplatePass,
          tCleanup, tNodeOutputs, lCleanup, natSubs, outSubs, chain, call,
          disp, emission, destroyed>>

(* ------------------------------------------------------------------ *)
(* Values                                                              *)
(* ------------------------------------------------------------------ *)

\* slots of tView.cleanup: a JS value with its type tag
StrSlot(s) == [t |-> "string", s |-> s, n |-> 0]
NumSlot(i) == [t |-> "number", s |-> "", n |-> i]
BoolSlot(b) == [t |-> "boolean", s |-> "", n |-> IF b THEN 1 ELSE 0]
FnSlot(name) == [t |-> "function", s |-> name, n |-> 0]

\* objects stored in lView[CLEANUP] and linked by __ngNextListenerFn__
Null == [k |-> "null", id |-> 0]
HandlerFn(h) == [k |-> "handler", id |-> h]
WrapperFn(w) == [k |-> "wrapper", id |-> w]
DisposerFn(w) == [k |-> "disposer", id |-> w]
Subscription(s) == [k |-> "subscription", id |-> s]
HookContext(i) == [k |-> "context", id |-> i]

\* obj.__ngNextListenerFn__ (undefined reads as Null)
NextListenerFn(v, obj) == IF obj \in DOMAIN chain[v] THEN chain[v][obj] ELSE Null

NoCall == [view |-> 0, node |-> 0, ev |-> "", h |-> 0, res |-> FALSE,
           coalesced |-> FALSE, threw |-> FALSE]
NoDisp == [view |-> 0, w |-> 0, manualOnPush |-> FALSE, log |-> <<>>, returned |-> FALSE]

\* no emission of an output has run
NoEmission == [view |-> 0, index |-> 0, log |-> <<>>]

\* tNode.type
TNodeType(n) == IF n = 0 THEN "Element" ELSE node1.type

\* tNode.flags & TNodeFlags.isComponent
IsComponentHost(n) == n = 0

\* tNode.outputs[eventName]: the directive indices of the matching outputs
\* (one (index, publicName, minifiedName) triple each)
OutputProps(n, ev) ==
  IF ev # "click" THEN <<>>
  ELSE IF n = 0 THEN <<2, 3>>
  ELSE <<4>>

\* isObservable(lView[index][minifiedName])
IsObservable(index) == index # 4 \/ node1.observable


(* ------------------------------------------------------------------ *)
(* findExistingListener                                                *)
(* ------------------------------------------------------------------ *)

\* The scan over tView.cleanup: i (0-based) advances by 2 in the loop header
\* and by 2 more at the end of the body.  A match returns the entry of
\* lView[CLEANUP] the block points to, or null when the view has not realized
\* it yet.
RECURSIVE ScanCleanup(_, _, _, _)
ScanCleanup(v, eventName, tNodeIdx, i) ==
  IF ~(i < Len(tCleanup) - 1) THEN Null
  ELSE IF tCleanup[i + 1] = StrSlot(eventName) /\ tCleanup[i + 2] = NumSlot(tNodeIdx)
    THEN IF /\ i + 3 <= Len(tCleanup)
            /\ tCleanup[i + 3].t = "number"
            /\ tCleanup[i + 3].n >= 0
            /\ Len(lCleanup[v]) > tCleanup[i + 3].n
         THEN lCleanup[v][tCleanup[i + 3].n + 1]
         ELSE Null
    ELSE ScanCleanup(v, eventName, tNodeIdx, i + 2 + 2)

findExistingListener(v, eventName, tNodeIdx) ==
  ScanCleanup(v, eventName, tNodeIdx, 0)

(* ------------------------------------------------------------------ *)
(* wrapListener                                                        *)
(* ------------------------------------------------------------------ *)

\* The closure wrapListener returns: what it captured.
wrapListener(tNodeIdx, h, wrapWithPreventDefault) ==
  [node |-> tNodeIdx, h |-> h, preventDefault |-> wrapWithPreventDefault]

\* A native registration of a wrapper: renderer.listen(resolved.name || target,
\* eventName, listenerFn) or target.addEventListener(eventName, listenerFn,
\* useCapture).  global: the target is the one the target resolver gave.
\* chained: the listener functions later calls coalesced onto this wrapper,
\* in the order of the calls; disposed: how often its disposer has run.
NativeSub(wrapper, eventName, global, via, capture) ==
  [node |-> wrapper.node, h |-> wrapper.h, preventDefault |-> wrapper.preventDefault,
   ev |-> eventName, global |-> global, via |-> via, capture |-> capture,
   chained |-> <<>>, disposed |-> 0]

(* ------------------------------------------------------------------ *)
(* listenerInternal                                                    *)
(* ------------------------------------------------------------------ *)

\* Mutant of ExistingListener (C6): the lookup is made for listeners with a
\* target resolver too.
C6_ExistingListenerIgnoresResolver(v, eventName, tNodeIdx, res) ==
  findExistingListener(v, eventName, tNodeIdx)

\* existingListener: no lookup for a listener with a target resolver
ExistingListener(v, eventName, tNodeIdx, res) ==
  IF res THEN Null ELSE findExistingListener(v, eventName, tNodeIdx)

\* Mutant of Coalesce (C2): the new listener does not take over the chain of
\* the existing one.
C2_CoalesceDropsTail(v, existingListener, listenerFn) ==
  (existingListener :> listenerFn) @@ chain[v]

\* listenerFn.__ngNextListenerFn__ = existingListener.__ngNextListenerFn__;
\* existingListener.__ngNextListenerFn__ = listenerFn
Coalesce(v, existingListener, listenerFn) ==
  (existingListener :> listenerFn)
    @@ (listenerFn :> NextListenerFn(v, existingListener))
    @@ chain[v]

\* Mutant of ListenBlock (C10): the fourth slot addresses the listener instead
\* of the disposer stored after it.
C10_ListenBlockPointsAtListener(eventName, idxOrTargetGetter, lCleanupIndex) ==
  <<StrSlot(eventName), idxOrTargetGetter, NumSlot(lCleanupIndex),
    NumSlot(lCleanupIndex)>>

\* the block of tView.cleanup for a listener registered with renderer.listen
ListenBlock(eventName, idxOrTargetGetter, lCleanupIndex) ==
  <<StrSlot(eventName), idxOrTargetGetter, NumSlot(lCleanupIndex),
    NumSlot(lCleanupIndex + 1)>>

\* Mutant of DomBlock (C17): the capture flag is not recorded.
C17_DomBlockNoCapture(eventName, idxOrTargetGetter, lCleanupIndex, capture) ==
  <<StrSlot(eventName), idxOrTargetGetter, NumSlot(lCleanupIndex), BoolSlot(FALSE)>>

\* the block of tView.cleanup for a listener added with addEventListener
DomBlock(eventName, idxOrTargetGetter, lCleanupIndex, capture) ==
  <<StrSlot(eventName), idxOrTargetGetter, NumSlot(lCleanupIndex), BoolSlot(capture)>>

\* Mutant of OutputBlock (C15): the fourth slot is the index of the
\* subscription, not negated.
C15_OutputBlockPositive(eventName, tNodeIdx, idx) ==
  <<StrSlot(eventName), NumSlot(tNodeIdx), NumSlot(idx), NumSlot(idx + 1)>>

\* the block of tView.cleanup for an output subscription
OutputBlock(eventName, tNodeIdx, idx) ==
  <<StrSlot(eventName), NumSlot(tNodeIdx), NumSlot(idx), NumSlot(-(idx + 1))>>

\* Mutant of PushTCleanup (C12): every instance of the template pushes.
C12_PushTCleanupAlways(tc, block) == tc \o block

\* tCleanup && tCleanup.push(...): only in the first template pass
PushTCleanup(tc, block) == IF firstTemplatePass THEN tc \o block ELSE tc

\* Mutant of NativeApplicable (C18): every node the instruction accepts.
C18_NativeApplicableElementLike(tNodeIdx) ==
  TNodeType(tNodeIdx) \in {"Element", "Container", "ElementContainer"}

\* add native event listener - applicable to elements only
NativeApplicable(tNodeIdx) == TNodeType(tNodeIdx) = "Element"

\* The native part of listenerInternal (applicable to elements only): the
\* state of the view after it, and the value of listenerFn after it.
NativeListener(v, tNodeIdx, eventName, h, res, capture) ==
  LET lc0 == lCleanup[v]
      lCleanupIndex == Len(lc0)
      idxOrTargetGetter == IF res THEN FnSlot("targetGetter") ELSE NumSlot(tNodeIdx)
      w == Len(natSubs[v]) + 1
      existingListener == ExistingListener(v, eventName, tNodeIdx, res)
      same == [lc |-> lc0, tc |-> tCleanup, nat |-> natSubs[v], ch |-> chain[v],
               fn |-> HandlerFn(h), coalesced |-> FALSE]
  IN
  IF ~NativeApplicable(tNodeIdx) THEN same
  ELSE IF procedural THEN
    IF existingListener # Null THEN
      [same EXCEPT
        !.ch = Coalesce(v, existingListener, HandlerFn(h)),
        !.nat = IF existingListener.k = "wrapper"
                THEN [natSubs[v] EXCEPT ![existingListener.id].chained = Append(@, h)]
                ELSE natSubs[v],
        !.coalesced = TRUE]
    ELSE
      [same EXCEPT
        !.nat = Append(natSubs[v],
                  NativeSub(wrapListener(tNodeIdx, h, FALSE), eventName, res,
                            "listen", FALSE)),
        !.lc = lc0 \o <<WrapperFn(w), DisposerFn(w)>>,
        !.tc = PushTCleanup(tCleanup,
                 ListenBlock(eventName, idxOrTargetGetter, lCleanupIndex)),
        !.fn = WrapperFn(w)]
  ELSE
    [same EXCEPT
      !.nat = Append(natSubs[v],
                NativeSub(wrapListener(tNodeIdx, h, TRUE), eventName, res,
                          "addEventListener", capture)),
      !.lc = lc0 \o <<WrapperFn(w)>>,
      !.tc = PushTCleanup(tCleanup,
               DomBlock(eventName, idxOrTargetGetter, lCleanupIndex, capture)),
      !.fn = WrapperFn(w)]

\* Mutant of SubscribeOne (C9): an output that already has a subscriber in this
\* view is not subscribed to again.
C9_SubscribeOneCoalesced(st, index, tNodeIdx, eventName, listenerFn) ==
  IF \E s \in 1..Len(st.out) : st.out[s].index = index THEN st
  ELSE [st EXCEPT
         !.out = Append(st.out, [index |-> index, fn |-> listenerFn, disposed |-> 0]),
         !.lc = st.lc \o <<listenerFn, Subscription(Len(st.out) + 1)>>,
         !.tc = PushTCleanup(st.tc, OutputBlock(eventName, tNodeIdx, Len(st.lc)))]

\* One iteration of the loop over the matching outputs: subscribe listenerFn
\* to the output of the directive at index, and record the subscription.
SubscribeOne(st, index, tNodeIdx, eventName, listenerFn) ==
  LET idx == Len(st.lc)
      s == Len(st.out) + 1
  IN [st EXCEPT
       !.out = Append(st.out, [index |-> index, fn |-> listenerFn, disposed |-> 0]),
       !.lc = st.lc \o <<listenerFn, Subscription(s)>>,
       !.tc = PushTCleanup(st.tc, OutputBlock(eventName, tNodeIdx, idx))]

\* The loop over the matching outputs, from the i-th one on.  st holds the
\* cleanup lists and the subscriptions so far; an output that is not
\* observable throws and ends the call.
RECURSIVE SubscribeOutputs(_, _, _, _, _, _)
SubscribeOutputs(props, i, tNodeIdx, eventName, listenerFn, st) ==
  IF i > Len(props) THEN st
  ELSE IF ~IsObservable(props[i]) THEN [st EXCEPT !.threw = TRUE]
  ELSE SubscribeOutputs(props, i + 1, tNodeIdx, eventName, listenerFn,
         SubscribeOne(st, props[i], tNodeIdx, eventName, listenerFn))

\* The whole call on view v: the native part, then the output subscriptions.
listenerInternal(v, tNodeIdx, eventName, h, res, capture) ==
  LET n == NativeListener(v, tNodeIdx, eventName, h, res, capture)
      o == SubscribeOutputs(OutputProps(tNodeIdx, eventName), 1, tNodeIdx, eventName, n.fn,
             [lc |-> n.lc, tc |-> n.tc, out |-> outSubs[v], threw |-> FALSE])
  IN
  /\ lCleanup' = [lCleanup EXCEPT ![v] = o.lc]
  /\ tCleanup' = o.tc
  /\ natSubs' = [natSubs EXCEPT ![v] = n.nat]
  /\ outSubs' = [outSubs EXCEPT ![v] = o.out]
  /\ chain' = [chain EXCEPT ![v] = n.ch]
  /\ tNodeOutputs' = [tNodeOutputs EXCEPT ![tNodeIdx] = "generated"]
  /\ call' = [view |-> v, node |-> tNodeIdx, ev |-> eventName, h |-> h, res |-> res,
              coalesced |-> n.coalesced, threw |-> o.threw]

\* A cleanup function registered with its context (a directive or query
\* destroy hook): a 2-slot block of tView.cleanup.
storeCleanupWithContext(v) ==
  /\ lCleanup' = [lCleanup EXCEPT ![v] = Append(@, HookContext(Len(@)))]
  /\ tCleanup' = IF firstTemplatePass
                 THEN tCleanup \o <<FnSlot("cleanupFn"), NumSlot(Len(lCleanup[v]))>>
                 ELSE tCleanup
  /\ UNCHANGED <<natSubs, outSubs, chain, tNodeOutputs, call>>

(* ------------------------------------------------------------------ *)
(* The creation block                                                  *)
(* ------------------------------------------------------------------ *)

ListenerOp(n, ev, h, res, cap) ==
  [op |-> "listener", node |-> n, ev |-> ev, h |-> h, res |-> res, cap |-> cap]
HookOp ==
  [op |-> "hook", node |-> 0, ev |-> "", h |-> 0, res |-> FALSE, cap |-> FALSE]

\* the listener functions bound so far in the creation block
BoundHandlers == {prog[i].h : i \in {j \in 1..Len(prog) : prog[j].op = "listener"}}

\* every listener instruction passes a new function
FreshHandler == Cardinality(BoundHandlers) + 1

Execute(v, op) ==
  IF op.op = "listener"
  THEN listenerInternal(v, op.node, op.ev, op.h, op.res, op.cap)
  ELSE storeCleanupWithContext(v)

\* The listener instruction, executed in the first template pass.
listener ==
  /\ phase = "first"
  /\ Len(prog) < MaxOps
  /\ \E slot \in Slots, res \in BOOLEAN :
       LET op == ListenerOp(slot[1], slot[2], FreshHandler, res, useCapture) IN
       /\ Execute(1, op)
       /\ prog' = Append(prog, op)
  /\ phase' = IF call'.threw THEN "failed" ELSE "first"
  /\ UNCHANGED <<procedural, useCapture, node1, pc, firstTemplatePass, disp, emission,
                 destroyed>>

\* The listener instruction, executed in the first template pass with a
\* function that an earlier listener instruction of the block was given too.
listenerSameFn ==
  /\ phase = "first"
  /\ Len(prog) < MaxOps
  /\ \E slot \in Slots, res \in BOOLEAN, h \in BoundHandlers :
       LET op == ListenerOp(slot[1], slot[2], h, res, useCapture) IN
       /\ Execute(1, op)
       /\ prog' = Append(prog, op)
  /\ phase' = IF call'.threw THEN "failed" ELSE "first"
  /\ UNCHANGED <<procedural, useCapture, node1, pc, firstTemplatePass, disp, emission,
                 destroyed>>

\* A destroy hook registered in the first template pass.
registerHook ==
  /\ phase = "first"
  /\ Len(prog) < MaxOps
  /\ Execute(1, HookOp)
  /\ prog' = Append(prog, HookOp)
  /\ UNCHANGED <<procedural, useCapture, node1, phase, pc, firstTemplatePass, disp,
                 emission, destroyed>>

\* The first template pass ends.
finishFirstPass ==
  /\ phase = "first"
  /\ firstTemplatePass' = FALSE
  /\ phase' = IF prog = <<>> THEN "live" ELSE "replay"
  /\ UNCHANGED <<procedural, useCapture, node1, prog, pc, tCleanup, tNodeOutputs,
                 lCleanup, natSubs, outSubs, chain, call, disp, emission,
                 destroyed>>

\* The creation block runs for view 2, one instruction at a time.
createView2 ==
  /\ phase = "replay"
  /\ Execute(2, prog[pc])
  /\ pc' = pc + 1
  /\ phase' = IF prog[pc].op = "listener" /\ call'.threw THEN "failed"
              ELSE IF pc = Len(prog) THEN "live" ELSE "replay"
  /\ UNCHANGED <<procedural, useCapture, node1, prog, firstTemplatePass, disp, emission,
                 destroyed>>

(* ------------------------------------------------------------------ *)
(* Dispatch: the function wrapListener returns                         *)
(* ------------------------------------------------------------------ *)

LogEntry(e, fn, val) == [e |-> e, fn |-> fn, val |-> val]

\* executeListenerWithErrorHandling: the events of one invocation ...
executeListenerWithErrorHandling(fn, outcome) ==
  IF outcome = "throw"
  THEN <<LogEntry("call", fn.id, outcome), LogEntry("handleError", fn.id, "")>>
  ELSE <<LogEntry("call", fn.id, outcome)>>

\* Mutant of ResultOf (C8): a listener that throws yields undefined.
C8_ResultOfThrowUndefined(outcome) ==
  IF outcome = "throw" THEN "undefined" ELSE outcome

\* ... and its result: false when the listener threw
ResultOf(outcome) == IF outcome = "throw" THEN "false" ELSE outcome

\* The functions the while loop visits from f on, following
\* __ngNextListenerFn__, up to the first one it reaches for the second time.
RECURSIVE ChainWalk(_, _, _)
ChainWalk(v, f, seen) ==
  IF f = Null \/ f \in seen THEN <<>>
  ELSE <<f>> \o ChainWalk(v, NextListenerFn(v, f), seen \cup {f})

\* does the walk from f come back to a function it has visited
RECURSIVE ChainCyclic(_, _, _)
ChainCyclic(v, f, seen) ==
  IF f = Null THEN FALSE
  ELSE IF f \in seen THEN TRUE
  ELSE ChainCyclic(v, NextListenerFn(v, f), seen \cup {f})

\* Mutant of Invoked (C3): the coalesced listeners run before the wrapped one.
C3_InvokedChainFirst(v, w) ==
  ChainWalk(v, NextListenerFn(v, WrapperFn(w)), {}) \o <<HandlerFn(natSubs[v][w].h)>>

\* the functions one dispatch to wrapper w invokes, in order
Invoked(v, w) ==
  <<HandlerFn(natSubs[v][w].h)>> \o ChainWalk(v, NextListenerFn(v, WrapperFn(w)), {})

RECURSIVE InvokeAll(_, _, _)
InvokeAll(fns, outs, i) ==
  IF i > Len(fns) THEN <<>>
  ELSE executeListenerWithErrorHandling(fns[i], outs[i]) \o InvokeAll(fns, outs, i + 1)

\* Mutant of StartView (C5): the enclosing view is marked for every node.
C5_StartViewAlwaysLView(tNodeIdx) == "lView"

\* the view the wrapper marks dirty: the component's own view for a
\* component host node, the enclosing view otherwise
StartView(tNodeIdx) == IF IsComponentHost(tNodeIdx) THEN "componentView" ELSE "lView"

\* if ((lView[FLAGS] & LViewFlags.ManualOnPush) === 0) markViewDirty(startView)
MarkDirty(tNodeIdx, manualOnPush) ==
  IF ~manualOnPush THEN <<LogEntry("markViewDirty", 0, StartView(tNodeIdx))>> ELSE <<>>

\* Mutant of PreventDefault (C7): any falsy result prevents the default action.
C7_PreventDefaultOnFalsy(wrapWithPreventDefault, result) ==
  IF wrapWithPreventDefault /\ result \in {"false", "undefined", "zero"}
  THEN <<LogEntry("preventDefault", 0, "")>> ELSE <<>>

\* if (wrapWithPreventDefault && result === false) e.preventDefault()
\* (and e.returnValue = false)
PreventDefault(wrapWithPreventDefault, result) ==
  IF wrapWithPreventDefault /\ result = "false"
  THEN <<LogEntry("preventDefault", 0, "")>> ELSE <<>>

\* Mutant of WrapperBody (C4): the view is marked after the listeners ran.
C4_WrapperBodyMarksLast(mark, calls, tail) == calls \o mark \o tail

\* the order of the statements of the wrapper
WrapperBody(mark, calls, tail) == mark \o calls \o tail

\* wrapListenerIn_markDirtyAndPreventDefault(e) of wrapper w of view v:
\* manualOnPush is lView[FLAGS] & ManualOnPush at the time of the event,
\* outs[i] is what the i-th invoked function does.
wrapListenerIn_markDirtyAndPreventDefault(v, w, manualOnPush, outs) ==
  LET sub == natSubs[v][w]
      fns == Invoked(v, w)
      result == ResultOf(outs[Len(fns)])
      returns == ~ChainCyclic(v, NextListenerFn(v, WrapperFn(w)), {})
  IN [view |-> v, w |-> w, manualOnPush |-> manualOnPush,
      log |-> WrapperBody(MarkDirty(sub.node, manualOnPush),
                InvokeAll(fns, outs, 1),
                IF returns
                THEN PreventDefault(sub.preventDefault, result)
                       \o <<LogEntry("return", 0, result)>>
                ELSE <<>>),
      returned |-> returns]

\* A native event reaches a registered wrapper.
dispatch ==
  /\ phase = "live"
  /\ disp = NoDisp
  /\ \E v \in Views : \E w \in 1..Len(natSubs[v]) :
       /\ natSubs[v][w].disposed = 0
       /\ \E manualOnPush \in BOOLEAN :
            \E outs \in [1..Len(Invoked(v, w)) -> Outcomes] :
              disp' = wrapListenerIn_markDirtyAndPreventDefault(v, w, manualOnPush, outs)
  /\ UNCHANGED <<procedural, useCapture, node1, phase, prog, pc, firstTemplatePass,
                 tCleanup, tNodeOutputs, lCleanup, natSubs, outSubs, chain, call,
                 emission, destroyed>>

\* The wrapper has returned to the native dispatcher: the next event can come.
returnToDispatcher ==
  /\ disp # NoDisp
  /\ disp.returned
  /\ disp' = NoDisp
  /\ UNCHANGED <<procedural, useCapture, node1, phase, prog, pc, firstTemplatePass,
                 tCleanup, tNodeOutputs, lCleanup, natSubs, outSubs, chain, call,
                 emission, destroyed>>

(* ------------------------------------------------------------------ *)
(* Emission of a directive output                                      *)
(* ------------------------------------------------------------------ *)

\* the directives with an output
Directives == {2, 3, 4}

\* The call of one subscriber with the emitted value: a wrapper runs as for a
\* native event, any other function is the listener function itself.  r is
\* what the listener functions return.
SubscriberCall(v, fn, manualOnPush, r) ==
  IF fn.k = "wrapper"
  THEN wrapListenerIn_markDirtyAndPreventDefault(v, fn.id, manualOnPush,
         [i \in 1..Len(Invoked(v, fn.id)) |-> r]).log
  ELSE <<LogEntry("call", fn.id, r)>>

\* One emission of the output of the directive at index in view v: the calls
\* of its live subscribers from the s-th subscription of the view on, in the
\* order of subscription.
RECURSIVE EmitFrom(_, _, _, _, _)
EmitFrom(v, index, s, manualOnPush, r) ==
  IF s > Len(outSubs[v]) THEN <<>>
  ELSE (IF outSubs[v][s].index = index /\ outSubs[v][s].disposed = 0
        THEN SubscriberCall(v, outSubs[v][s].fn, manualOnPush, r)
        ELSE <<>>)
       \o EmitFrom(v, index, s + 1, manualOnPush, r)

\* A directive emits a value on an output that has subscribers.
emit ==
  /\ phase = "live"
  /\ emission = NoEmission
  /\ \E v \in Views, index \in Directives :
       /\ \E s \in 1..Len(outSubs[v]) : outSubs[v][s].index = index
       /\ \E manualOnPush \in BOOLEAN, r \in ReturnValues :
            emission' = [view |-> v, index |-> index,
                         log |-> EmitFrom(v, index, 1, manualOnPush, r)]
  /\ UNCHANGED <<procedural, useCapture, node1, phase, prog, pc, firstTemplatePass,
                 tCleanup, tNodeOutputs, lCleanup, natSubs, outSubs, chain, call,
                 disp, destroyed>>

\* The emission has returned to the directive: the next one can come.
endEmit ==
  /\ emission # NoEmission
  /\ emission' = NoEmission
  /\ UNCHANGED <<procedural, useCapture, node1, phase, prog, pc, firstTemplatePass,
                 tCleanup, tNodeOutputs, lCleanup, natSubs, outSubs, chain, call,
                 disp, destroyed>>

(* ------------------------------------------------------------------ *)
(* Teardown                                                            *)
(* ------------------------------------------------------------------ *)

\* One more disposal of the things a cleanup block of tView.cleanup names.
\* st holds the native and output subscriptions of the view.
DisposeBlock(v, i, st) ==
  LET target == tCleanup[i + 2]
      listenerFn == lCleanup[v][tCleanup[i + 3].n + 1]
      useCaptureOrSubIdx == tCleanup[i + 4]
  IN
  IF useCaptureOrSubIdx.t = "boolean" THEN
    \* target.removeEventListener(eventName, listener, useCapture)
    [st EXCEPT !.nat =
      [w \in DOMAIN st.nat |->
        IF /\ listenerFn = WrapperFn(w)
           /\ st.nat[w].via = "addEventListener"
           /\ st.nat[w].ev = tCleanup[i + 1].s
           /\ st.nat[w].capture = (useCaptureOrSubIdx.n = 1)
           /\ st.nat[w].global = (target.t = "function")
           /\ (target.t = "number" => st.nat[w].node = target.n)
        THEN [st.nat[w] EXCEPT !.disposed = @ + 1]
        ELSE st.nat[w]]]
  ELSE IF useCaptureOrSubIdx.n >= 0 THEN
    \* lCleanup[useCaptureOrSubIdx]()
    LET d == lCleanup[v][useCaptureOrSubIdx.n + 1] IN
    IF d.k = "disposer"
    THEN [st EXCEPT !.nat[d.id].disposed = @ + 1]
    ELSE st
  ELSE
    \* lCleanup[-useCaptureOrSubIdx].unsubscribe()
    LET d == lCleanup[v][(-useCaptureOrSubIdx.n) + 1] IN
    IF d.k = "subscription"
    THEN [st EXCEPT !.out[d.id].disposed = @ + 1]
    ELSE st

\* The forward pass over tView.cleanup at destruction: a block that starts
\* with an event name has 4 slots, any other block has 2.
RECURSIVE removeListeners(_, _, _)
removeListeners(v, i, st) ==
  IF ~(i < Len(tCleanup) - 1) THEN st
  ELSE IF tCleanup[i + 1].t = "string"
    THEN removeListeners(v, i + 4, DisposeBlock(v, i, st))
    ELSE removeListeners(v, i + 2, st)

\* View v is destroyed.
destroyView ==
  /\ phase = "live"
  /\ \E v \in Views :
       /\ ~destroyed[v]
       /\ LET st == removeListeners(v, 0, [nat |-> natSubs[v], out |-> outSubs[v]]) IN
          /\ natSubs' = [natSubs EXCEPT ![v] = st.nat]
          /\ outSubs' = [outSubs EXCEPT ![v] = st.out]
       /\ destroyed' = [destroyed EXCEPT ![v] = TRUE]
  /\ UNCHANGED <<procedural, useCapture, node1, phase, prog, pc, firstTemplatePass,
                 tCleanup, tNodeOutputs, lCleanup, chain, call, disp, emission>>

Init ==
  /\ procedural \in BOOLEAN
  /\ useCapture \in (IF procedural THEN {FALSE} ELSE BOOLEAN)
  /\ node1 \in Node1Configs
  /\ phase = "first"
  /\ prog = <<>>
  /\ pc = 1
  /\ firstTemplatePass = TRUE
  /\ tCleanup = <<>>
  /\ tNodeOutputs = [n \in Nodes |-> "undefined"]
  /\ lCleanup = [v \in Views |-> <<>>]
  /\ natSubs = [v \in Views |-> <<>>]
  /\ outSubs = [v \in Views |-> <<>>]
  /\ chain = [v \in Views |-> <<>>]
  /\ call = NoCall
  /\ disp = NoDisp
  /\ emission = NoEmission
  /\ destroyed = [v \in Views |-> FALSE]

\* construction and destruction of the two views
Next ==
  \/ listener
  \/ registerHook
  \/ finishFirstPass
  \/ createView2
  \/ destroyView

Spec == Init /\ [][Next]_vars

\* construction of the two views and dispatch of native events to them, for a
\* template whose node 1 is an element with an initialised output
InitDispatch ==
  /\ Init
  /\ node1 = [type |-> "Element", observable |-> TRUE]

NextDispatch ==
  \/ listener
  \/ registerHook
  \/ finishFirstPass
  \/ createView2
  \/ dispatch
  \/ returnToDispatcher

SpecDispatch == InitDispatch /\ [][NextDispatch]_vars

\* construction and dispatch under the procedural renderer for a creation
\* block that may pass one function to several listener instructions
InitSameFn ==
  /\ InitDispatch
  /\ procedural

NextSameFn ==
  \/ listener
  \/ listenerSameFn
  \/ finishFirstPass
  \/ createView2
  \/ dispatch
  \/ returnToDispatcher

SpecSameFn == InitSameFn /\ [][NextSameFn]_vars

\* construction of the two views and emissions of the directive outputs
NextEmit ==
  \/ listener
  \/ finishFirstPass
  \/ createView2
  \/ emit
  \/ endEmit

SpecEmit == InitDispatch /\ [][NextEmit]_vars

(* ------------------------------------------------------------------ *)
(* Properties                                                          *)
(* ------------------------------------------------------------------ *)

\* the instructions view v has executed so far
CallsIn(v) == IF v = 1 THEN prog ELSE SubSeq(prog, 1, pc - 1)

\* the listener calls of view v for (n, ev) made without a target resolver
PlainCalls(v, n, ev) ==
  {i \in 1..Len(CallsIn(v)) :
     /\ CallsIn(v)[i].op = "listener"
     /\ CallsIn(v)[i].node = n
     /\ CallsIn(v)[i].ev = ev
     /\ ~CallsIn(v)[i].res}

\* the native subscriptions of view v on the element of node n itself for ev
NativeOn(v, n, ev) ==
  {w \in 1..Len(natSubs[v]) :
     /\ natSubs[v][w].node = n
     /\ natSubs[v][w].ev = ev
     /\ ~natSubs[v][w].global}

\* the entries of a dispatch log with event e
Entries(log, e) == {i \in 1..Len(log) : log[i].e = e}

\* the calls of listener function h in a dispatch log
CallsOf(log, h) == {i \in Entries(log, "call") : log[i].fn = h}

\* the listener functions a dispatch invoked, in order
RECURSIVE CallOrder(_)
CallOrder(log) ==
  IF log = <<>> THEN <<>>
  ELSE (IF Head(log).e = "call" THEN <<Head(log).fn>> ELSE <<>>) \o CallOrder(Tail(log))

RECURSIVE Reverse(_)
Reverse(seq) == IF seq = <<>> THEN <<>> ELSE Reverse(Tail(seq)) \o <<Head(seq)>>

\* the wrapper of the last dispatch, when it is a wrapper registered through
\* the procedural renderer on the element itself
Dispatched == disp # NoDisp
DispSub == natSubs[disp.view][disp.w]
DispCoalescing == Dispatched /\ DispSub.via = "listen" /\ ~DispSub.global

\* C1: under a procedural renderer, once a view has made at least one
\* listener call without target resolver for an event name on an element,
\* renderer.listen has been called exactly once for that element and event.
C1_ListenCalledOnce ==
  procedural =>
    \A v \in Views : \A slot \in Slots :
      (TNodeType(slot[1]) = "Element" /\ PlainCalls(v, slot[1], slot[2]) # {})
        => Cardinality(NativeOn(v, slot[1], slot[2])) = 1

\* C2: one dispatch to a wrapper onto which handlers were coalesced invokes the
\* wrapped handler and every coalesced handler exactly once, and no other
\* function.
C2_EachHandlerOnce ==
  DispCoalescing =>
    /\ disp.returned
    /\ \A h \in {DispSub.h} \cup {DispSub.chained[i] : i \in DOMAIN DispSub.chained} :
         Cardinality(CallsOf(disp.log, h)) = 1
    /\ Cardinality(Entries(disp.log, "call")) = 1 + Len(DispSub.chained)

\* a dispatch to a wrapper with three handlers (one wrapped, two coalesced)
C2_Witness ==
  /\ DispCoalescing
  /\ Len(DispSub.chained) = 2
  /\ disp.returned

\* C3 as stated: the handlers bound in the order H1, ..., HN are invoked
\* HN first and H1 last.
C3_MostRecentFirst ==
  DispCoalescing =>
    CallOrder(disp.log) = Reverse(<<DispSub.h>> \o DispSub.chained)

\* C3 amended: the handler bound first (the wrapped one) is invoked first, then
\* the coalesced handlers, most recently bound first: H1, HN, ..., H2.
C3_FirstThenMostRecentFirst ==
  DispCoalescing =>
    CallOrder(disp.log) = <<DispSub.h>> \o Reverse(DispSub.chained)

\* a dispatch to a wrapper with H1 wrapped and H2, H3 coalesced, in that
\* order, has invoked three functions
C3_Witness ==
  /\ DispCoalescing
  /\ Len(DispSub.chained) = 2
  /\ DispSub.h < DispSub.chained[1]
  /\ DispSub.chained[1] < DispSub.chained[2]
  /\ Len(CallOrder(disp.log)) = 3

\* C4: when the manual-trigger flag is not set, one dispatch calls
\* markViewDirty exactly once, whatever the number of chained handlers, and
\* before any handler is invoked.
C4_MarkOnceBeforeHandlers ==
  (Dispatched /\ ~disp.manualOnPush) =>
    /\ Cardinality(Entries(disp.log, "markViewDirty")) = 1
    /\ disp.log[1].e = "markViewDirty"
    /\ \A i \in Entries(disp.log, "call") : i > 1

\* a dispatch with the flag not set to a wrapper with two coalesced handlers
C4_Witness ==
  /\ DispCoalescing
  /\ ~disp.manualOnPush
  /\ Len(DispSub.chained) = 2
  /\ Cardinality(Entries(disp.log, "call")) = 3

\* C5: the wrapper of a component host node (node 0) marks the component's own
\* view and never the enclosing view, the wrapper of any other node marks the
\* enclosing view; with the manual-trigger flag set nothing is marked and the
\* handlers still run.
C5_ViewMarked ==
  Dispatched =>
    /\ disp.manualOnPush =>
         /\ Entries(disp.log, "markViewDirty") = {}
         /\ Cardinality(Entries(disp.log, "call")) = 1 + Len(DispSub.chained)
    /\ ~disp.manualOnPush =>
         /\ Entries(disp.log, "markViewDirty") # {}
         /\ \A i \in Entries(disp.log, "markViewDirty") :
              disp.log[i].val = (IF DispSub.node = 0 THEN "componentView" ELSE "lView")

\* a dispatch to the wrapper of the component host has marked the component view
C5_Witness ==
  /\ Dispatched
  /\ DispSub.node = 0
  /\ ~disp.manualOnPush
  /\ disp.log[1] = LogEntry("markViewDirty", 0, "componentView")

\* C6: a listener call with a target resolver on an element is never
\* coalesced: it registers one new native subscription for a new wrapper of
\* its handler on the resolved target, stores the wrapper in lView[CLEANUP]
\* (and, in the first template pass, a block in tView.cleanup), and leaves
\* every existing subscription and chain as it was.
C6_ResolverNeverCoalesced ==
  [][ (call' # call /\ call'.res /\ TNodeType(call'.node) = "Element") =>
        LET v == call'.view
            w == Len(natSubs[v]) + 1
        IN /\ ~call'.coalesced
           /\ Len(natSubs'[v]) = w
           /\ natSubs'[v][w].h = call'.h
           /\ natSubs'[v][w].node = call'.node
           /\ natSubs'[v][w].ev = call'.ev
           /\ natSubs'[v][w].global
           /\ \A u \in 1..Len(natSubs[v]) : natSubs'[v][u] = natSubs[v][u]
           /\ chain'[v] = chain[v]
           /\ Len(lCleanup'[v]) > Len(lCleanup[v])
           /\ lCleanup'[v][Len(lCleanup[v]) + 1] = WrapperFn(w)
           /\ firstTemplatePass =>
                /\ Len(tCleanup') >= Len(tCleanup) + 4
                /\ tCleanup'[Len(tCleanup) + 1] = StrSlot(call'.ev)
                /\ tCleanup'[Len(tCleanup) + 2].t = "function"
                /\ tCleanup'[Len(tCleanup) + 3] = NumSlot(Len(lCleanup[v]))
     ]_vars

\* the last call had a target resolver and the view already had a native
\* subscription on the element itself for the same event: now it has both
C6_Witness ==
  /\ call.view # 0
  /\ call.res
  /\ ~call.threw
  /\ NativeOn(call.view, call.node, call.ev) # {}
  /\ \E w \in 1..Len(natSubs[call.view]) :
       /\ natSubs[call.view][w].h = call.h
       /\ natSubs[call.view][w].global
       /\ \A u \in NativeOn(call.view, call.node, call.ev) : u < w

\* C7: a wrapper added with addEventListener prevents the default action
\* exactly when its handler's result is false (a handler that throws counts
\* as returning false); undefined, 0 and any other value do not.  A wrapper
\* registered with renderer.listen never prevents it.
C7_PreventDefault ==
  Dispatched =>
    LET prevented == Entries(disp.log, "preventDefault") # {} IN
    IF DispSub.via = "addEventListener"
    THEN /\ Cardinality(Entries(disp.log, "call")) = 1
         /\ \A i \in Entries(disp.log, "call") :
              prevented <=> disp.log[i].val \in {"false", "throw"}
    ELSE ~prevented

\* a directly attached wrapper whose handler returned false has prevented the
\* default action
C7_Witness ==
  /\ Dispatched
  /\ DispSub.via = "addEventListener"
  /\ \E i \in Entries(disp.log, "call") : disp.log[i].val = "false"
  /\ Entries(disp.log, "preventDefault") # {}

\* C8: every handler that throws is reported to handleError exactly once,
\* right after its call; the wrapper still returns; every handler of the
\* chain is still invoked; and when the handler invoked last has thrown, the
\* result is false: the wrapper returns false and, on the direct path,
\* prevents the default action.
C8_ThrowIsolated ==
  Dispatched =>
    LET calls == Entries(disp.log, "call")
        thrown == {i \in calls : disp.log[i].val = "throw"}
        last == CHOOSE i \in calls : \A j \in calls : j <= i
    IN /\ \A i \in thrown :
            /\ i < Len(disp.log)
            /\ disp.log[i + 1] = LogEntry("handleError", disp.log[i].fn, "")
       /\ Cardinality(Entries(disp.log, "handleError")) = Cardinality(thrown)
       /\ disp.returned
       /\ disp.log[Len(disp.log)].e = "return"
       /\ Cardinality(calls) = 1 + Len(DispSub.chained)
       /\ last \in thrown =>
            /\ disp.log[Len(disp.log)].val = "false"
            /\ DispSub.preventDefault => Entries(disp.log, "preventDefault") # {}

\* a dispatch in which the wrapped handler threw and a coalesced handler was
\* invoked after it
C8_Witness ==
  /\ DispCoalescing
  /\ Len(DispSub.chained) >= 1
  /\ \E i, j \in Entries(disp.log, "call") :
       /\ i < j
       /\ disp.log[i].val = "throw"
       /\ disp.log[i].fn = DispSub.h

\* C9: a listener call that returns, for an event name matching K outputs of
\* the node, subscribes K times, once to each matching output in order, also
\* when its native listener was coalesced, and stores for each subscription
\* the subscribed function followed by the subscription in lView[CLEANUP].
C9_OutputsNeverCoalesced ==
  [][ (call' # call /\ ~call'.threw) =>
        LET v == call'.view
            props == OutputProps(call'.node, call'.ev)
            K == Len(props)
        IN /\ Len(outSubs'[v]) = Len(outSubs[v]) + K
           /\ \A s \in 1..Len(outSubs[v]) : outSubs'[v][s] = outSubs[v][s]
           /\ \A j \in 1..K :
                LET s == Len(outSubs[v]) + j IN
                /\ outSubs'[v][s].index = props[j]
                /\ \E i \in (Len(lCleanup[v]) + 1)..(Len(lCleanup'[v]) - 1) :
                     /\ lCleanup'[v][i] = outSubs'[v][s].fn
                     /\ lCleanup'[v][i + 1] = Subscription(s)
     ]_vars

\* the last call was coalesced on node 0, whose directives have two click
\* outputs, and the view holds the four subscriptions of its two calls
C9_Witness ==
  /\ call.view # 0
  /\ call.coalesced
  /\ call.node = 0
  /\ call.ev = "click"
  /\ Len(outSubs[call.view]) = 4

\* C10: the destruction of a view has disposed every native subscription and
\* every output subscription of the view exactly once.
C10_DisposedOnce ==
  \A v \in Views :
    destroyed[v] =>
      /\ \A w \in 1..Len(natSubs[v]) : natSubs[v][w].disposed = 1
      /\ \A s \in 1..Len(outSubs[v]) : outSubs[v][s].disposed = 1

\* a destroyed view with a wrapper onto which a handler was coalesced, another
\* native subscription and output subscriptions
C10_Witness ==
  \E v \in Views :
    /\ destroyed[v]
    /\ Len(natSubs[v]) >= 2
    /\ \E w \in 1..Len(natSubs[v]) : natSubs[v][w].chained # <<>>
    /\ Len(outSubs[v]) >= 2

\* C11: a listener call that fails on an output that is not observable leaves
\* no native subscription, no output subscription and no cleanup entry behind
\* that was not there before the call.
C11_FailedCallLeavesNothing ==
  [][ (call' # call /\ call'.threw) =>
        /\ natSubs' = natSubs
        /\ outSubs' = outSubs
        /\ lCleanup' = lCleanup
        /\ tCleanup' = tCleanup
        /\ chain' = chain
     ]_vars

\* seq extends pre: pre is a prefix of seq
Extends(seq, pre) == Len(seq) >= Len(pre) /\ SubSeq(seq, 1, Len(pre)) = pre

\* C12: tView.cleanup changes only in the first template pass; a listener
\* call made for a later view of the template leaves tView.cleanup unchanged
\* and only appends to the lView[CLEANUP] of that view.
C12_TCleanupFirstPassOnly ==
  [][ /\ (tCleanup' # tCleanup => firstTemplatePass)
      /\ (call' # call /\ call'.view = 2) =>
           /\ ~firstTemplatePass
           /\ tCleanup' = tCleanup
           /\ Extends(lCleanup'[2], lCleanup[2])
           /\ lCleanup'[1] = lCleanup[1]
     ]_vars

\* the second view has made a listener call that registered a native listener
\* and output subscriptions, with the blocks of the first pass in tView.cleanup
C12_Witness ==
  /\ call.view = 2
  /\ ~call.coalesced
  /\ Len(natSubs[2]) >= 1
  /\ Len(outSubs[2]) >= 1
  /\ Len(lCleanup[2]) >= 4
  /\ Len(tCleanup) >= 8

\* the elements of a sequence
Range(seq) == {seq[i] : i \in 1..Len(seq)}

\* C13: under a procedural renderer, every listener function bound without a
\* target resolver on an element by a call that returned is the function
\* wrapped by a native subscription on that element for that event name, or
\* is reached by the chain walk of such a wrapper.
C13_AttachedToOwnElement ==
  (procedural /\ phase # "failed") =>
    \A v \in Views : \A slot \in Slots :
      TNodeType(slot[1]) = "Element" =>
        \A i \in PlainCalls(v, slot[1], slot[2]) :
          \E w \in NativeOn(v, slot[1], slot[2]) :
            HandlerFn(CallsIn(v)[i].h) \in Range(Invoked(v, w))

\* The start (0-based) of the first block of tView.cleanup for eventName on
\* node tNodeIdx, from block start i on, or -1: a block that starts with an
\* event name has 4 slots, any other block has 2.
RECURSIVE FirstBlockFor(_, _, _)
FirstBlockFor(eventName, tNodeIdx, i) ==
  IF ~(i < Len(tCleanup) - 1) THEN -1
  ELSE IF tCleanup[i + 1].t # "string" THEN FirstBlockFor(eventName, tNodeIdx, i + 2)
  ELSE IF tCleanup[i + 1] = StrSlot(eventName) /\ tCleanup[i + 2] = NumSlot(tNodeIdx)
    THEN i
    ELSE FirstBlockFor(eventName, tNodeIdx, i + 4)

\* C14: under a procedural renderer, when tView.cleanup holds a 4-slot block
\* for an event name and a node index, behind any number of 2-slot and 4-slot
\* blocks, and the view has realized the entry it points to, the lookup
\* returns that entry of lView[CLEANUP].
C14_LookupFindsEntry ==
  procedural =>
    \A v \in Views : \A slot \in Slots :
      LET j == FirstBlockFor(slot[2], slot[1], 0) IN
      (j >= 0 /\ Len(lCleanup[v]) > tCleanup[j + 3].n) =>
        findExistingListener(v, slot[2], slot[1]) = lCleanup[v][tCleanup[j + 3].n + 1]

\* The starts (0-based) of the 4-slot blocks of tView.cleanup from block start
\* i on: a block that starts with an event name has 4 slots, any other has 2.
RECURSIVE ListenerBlocks(_)
ListenerBlocks(i) ==
  IF i >= Len(tCleanup) THEN {}
  ELSE IF tCleanup[i + 1].t = "string" THEN {i} \cup ListenerBlocks(i + 4)
  ELSE ListenerBlocks(i + 2)

\* tView.cleanup from block start i on is a sequence of whole blocks
RECURSIVE WholeBlocks(_)
WholeBlocks(i) ==
  IF i = Len(tCleanup) THEN TRUE
  ELSE IF i > Len(tCleanup) THEN FALSE
  ELSE IF tCleanup[i + 1].t = "string" THEN WholeBlocks(i + 4)
  ELSE WholeBlocks(i + 2)

\* the construction of view v is complete
Complete(v) == IF v = 1 THEN ~firstTemplatePass ELSE phase = "live"

\* C15: tView.cleanup is a sequence of whole blocks; in every 4-slot block the
\* third slot is an index idx >= 0 and the fourth slot is the capture flag
\* (listener added without the procedural renderer), idx + 1 (listener added
\* with renderer.listen) or -(idx + 1) < 0 (output); and in every view whose
\* construction is complete lView[CLEANUP][idx] holds a listener function and
\* lView[CLEANUP][idx + 1] the disposer of that listener, respectively a
\* subscription.
C15_CleanupLayout ==
  /\ WholeBlocks(0)
  /\ \A j \in ListenerBlocks(0) :
       LET idx == tCleanup[j + 3]
           last == tCleanup[j + 4]
       IN
       /\ idx.t = "number" /\ idx.n >= 0
       /\ last.t \in {"boolean", "number"}
       /\ last.t = "boolean" => (~procedural /\ last = BoolSlot(useCapture))
       /\ last.t = "number" =>
            /\ last.n \in {idx.n + 1, -(idx.n + 1)}
            /\ last.n > 0 => procedural
       /\ \A v \in Views :
            (v = 1 \/ Complete(v)) =>
              /\ Len(lCleanup[v]) > idx.n
              /\ lCleanup[v][idx.n + 1].k \in {"wrapper", "handler"}
              /\ last.t = "boolean" => lCleanup[v][idx.n + 1].k = "wrapper"
              /\ (last.t = "number" /\ last.n > 0) =>
                   /\ lCleanup[v][idx.n + 1].k = "wrapper"
                   /\ Len(lCleanup[v]) > last.n
                   /\ lCleanup[v][last.n + 1] = DisposerFn(lCleanup[v][idx.n + 1].id)
              /\ (last.t = "number" /\ last.n < 0) =>
                   /\ Len(lCleanup[v]) > -last.n
                   /\ lCleanup[v][(-last.n) + 1].k = "subscription"
                   /\ outSubs[v][lCleanup[v][(-last.n) + 1].id].fn
                        = lCleanup[v][idx.n + 1]

\* both views are complete, and tView.cleanup holds a destroy hook block
\* between a listener block and an output block
C15_Witness ==
  /\ Complete(1) /\ Complete(2)
  /\ \E i, j \in ListenerBlocks(0) :
       /\ j > i + 4
       /\ tCleanup[i + 4].t = "number" /\ tCleanup[i + 4].n > 0
       /\ tCleanup[j + 4].t = "number" /\ tCleanup[j + 4].n < 0
       /\ \E k \in (i + 4)..(j - 2) : tCleanup[k + 1].t = "function"

\* C16: the function subscribed to a directive output is the listener
\* function passed to the instruction, never the wrapper made for the native
\* registration.
C16_OutputGetsOriginalHandler ==
  \A v \in Views : \A s \in 1..Len(outSubs[v]) : outSubs[v][s].fn.k = "handler"

\* a step that is a listener call on an element, made without the procedural
\* renderer or with a target resolver
DirectCall ==
  /\ call' # call
  /\ TNodeType(call'.node) = "Element"
  /\ (~procedural \/ call'.res)

\* DirectCall registered one more wrapper of the listener function of the
\* call on the resolved target, without coalescing
OneMoreWrapper ==
  LET v == call'.view
      w == Len(natSubs'[v])
  IN
  /\ ~call'.coalesced
  /\ chain' = chain
  /\ w = Len(natSubs[v]) + 1
  /\ SubSeq(natSubs'[v], 1, w - 1) = natSubs[v]
  /\ natSubs'[v][w].h = call'.h
  /\ natSubs'[v][w].node = call'.node
  /\ natSubs'[v][w].ev = call'.ev
  /\ natSubs'[v][w].global = call'.res
  /\ lCleanup'[v][Len(lCleanup[v]) + 1] = WrapperFn(w)

\* C17 as stated: every listener call made without the procedural renderer
\* or with a target resolver registers one more wrapper with
\* addEventListener and the capture flag, and records the capture flag in its
\* block of tView.cleanup.
C17_AlwaysAddEventListener ==
  [][ DirectCall =>
        /\ OneMoreWrapper
        /\ natSubs'[call'.view][Len(natSubs'[call'.view])].via = "addEventListener"
        /\ natSubs'[call'.view][Len(natSubs'[call'.view])].capture = useCapture
        /\ firstTemplatePass => tCleanup'[Len(tCleanup) + 4] = BoolSlot(useCapture)
     ]_vars

\* C17: every listener call on an element made without the procedural
\* renderer or with a target resolver registers one more wrapper, without
\* coalescing: without the procedural renderer with addEventListener and the
\* capture flag, which its block of tView.cleanup records; with the procedural
\* renderer (and a target resolver) with renderer.listen, and its block of
\* tView.cleanup records the index of the disposer.
C17_OneWrapperPerDirectCall ==
  [][ DirectCall =>
        LET v == call'.view
            w == Len(natSubs'[v])
            lCleanupIndex == Len(lCleanup[v])
        IN
        /\ OneMoreWrapper
        /\ ~procedural =>
             /\ natSubs'[v][w].via = "addEventListener"
             /\ natSubs'[v][w].capture = useCapture
             /\ natSubs'[v][w].preventDefault
             /\ firstTemplatePass => tCleanup'[Len(tCleanup) + 4] = BoolSlot(useCapture)
        /\ procedural =>
             /\ natSubs'[v][w].via = "listen"
             /\ ~natSubs'[v][w].preventDefault
             /\ lCleanup'[v][lCleanupIndex + 2] = DisposerFn(w)
             /\ firstTemplatePass =>
                  tCleanup'[Len(tCleanup) + 4] = NumSlot(lCleanupIndex + 1)
     ]_vars

\* under the procedural renderer, the last call had a target resolver and the
\* view holds two wrappers registered for the same event of the same node on
\* the target of the resolver
C17_Witness ==
  /\ procedural
  /\ call.res
  /\ \E w1, w2 \in 1..Len(natSubs[call.view]) :
       /\ w1 < w2
       /\ natSubs[call.view][w1].global /\ natSubs[call.view][w2].global
       /\ natSubs[call.view][w1].node = natSubs[call.view][w2].node
       /\ natSubs[call.view][w1].ev = natSubs[call.view][w2].ev

\* C18 as stated: every listener call, on an element, a container or an
\* element container, makes the native step: it registers one more native
\* listener or coalesces onto an existing one.
C18_NativeStepOnEveryNode ==
  [][ call' # call =>
        \/ Len(natSubs'[call'.view]) = Len(natSubs[call'.view]) + 1
        \/ call'.coalesced
     ]_vars

\* C18: a listener call makes the native step (it registers one more native
\* listener or coalesces onto an existing one) exactly when the node is an
\* element; on a container or an element container it leaves the native
\* listeners and the chains alone and subscribes the listener function it
\* was passed to the matching outputs.
C18_NativeStepOnElementsOnly ==
  [][ call' # call =>
        LET v == call'.view IN
        IF TNodeType(call'.node) = "Element"
        THEN \/ /\ ~call'.coalesced
                /\ Len(natSubs'[v]) = Len(natSubs[v]) + 1
                /\ chain' = chain
             \/ /\ call'.coalesced
                /\ Len(natSubs'[v]) = Len(natSubs[v])
                /\ chain'[v] # chain[v]
        ELSE /\ ~call'.coalesced
             /\ natSubs' = natSubs
             /\ chain' = chain
             /\ ~call'.threw =>
                  /\ Len(outSubs'[v]) =
                       Len(outSubs[v]) + Len(OutputProps(call'.node, call'.ev))
                  /\ \A s \in (Len(outSubs[v]) + 1)..Len(outSubs'[v]) :
                       outSubs'[v][s].fn = HandlerFn(call'.h)
     ]_vars

\* the last call was made on node 1, a container or an element container with
\* a click output, and has subscribed to the output
C18_Witness ==
  /\ call.node = 1
  /\ TNodeType(1) # "Element"
  /\ ~call.threw
  /\ natSubs[call.view] = <<>>
  /\ outSubs[call.view] # <<>>

\* C19: the chain of every registered wrapper is acyclic, also when one
\* function was passed to several listener instructions, and every dispatch
\* returns.
C19_DispatchTerminates ==
  /\ \A v \in Views : \A w \in 1..Len(natSubs[v]) :
       ~ChainCyclic(v, NextListenerFn(v, WrapperFn(w)), {})
  /\ Dispatched => disp.returned

\* the listener functions the calls of view v have subscribed to the output of
\* the directive at index
SubscribedHandlers(v, index) ==
  {CallsIn(v)[i].h : i \in {j \in 1..Len(CallsIn(v)) :
     /\ CallsIn(v)[j].op = "listener"
     /\ index \in Range(OutputProps(CallsIn(v)[j].node, CallsIn(v)[j].ev))}}

\* C20: one emission of a directive output invokes every listener function
\* bound to the event name of the output on the node exactly once, also when
\* the native listeners of these functions were coalesced.
C20_EmissionInvokesOnce ==
  emission # NoEmission =>
    \A h \in SubscribedHandlers(emission.view, emission.index) :
      Cardinality(CallsOf(emission.log, h)) = 1

====
